---- MODULE Spec2Model ----
(***************************************************************************)
(* Model of src/packages/mesh.py (class Mesh) and src/packages/fbx.py      *)
(* (readFBX).                                                              *)
(*                                                                         *)
(* Units.  All numbers are integers.  Angles are counted in quarter turns  *)
(* (pi/2), on which sin and cos are exactly -1, 0 or 1, so that the bound  *)
(* [-2*pi, 2*pi) of _rotation_matrix is [-4, 4).  A projected coordinate   *)
(* is an exact fraction <<numerator, denominator>> in units of             *)
(* 5*sqrt(2)/2 (focal length times the camera's rotation entry).  The      *)
(* arithmetic is exact: the rounding of numpy's floats is not modelled.    *)
(*                                                                         *)
(* numpy's @ and .T build new arrays and the class never writes into an    *)
(* array in place, so a matrix is modelled by its value: two names bound   *)
(* to one array (transform_matrix and its backup) cannot change each       *)
(* other.                                                                  *)
(*                                                                         *)
(* A Python value handed to Mesh is a record [kind, v]: kind "list" (a     *)
(* list or tuple, v its elements), "num" (an int or float, v = <<n>>) or   *)
(* "point" (a packages.point.Point, v its three components).  A matrix is  *)
(* the sequence of its rows.  An operation that may raise returns a record *)
(* whose err field is "none" or the name of the exception, together with   *)
(* the object as the exception leaves it.                                  *)
(***************************************************************************)
EXTENDS Integers, Sequences, FiniteSets, TLC

VARIABLES mesh, last, nops,
          vin, vout,
          doc, idx, mesh_list, counter, center, angle, scale, status,
          point_strict

vars == <<mesh, last, nops, vin, vout,
          doc, idx, mesh_list, counter, center, angle, scale, status,
          point_strict>>

meshVars == <<mesh, last, nops>>
setterVars == <<vin, vout>>
readerVars == <<doc, idx, mesh_list, counter, center, angle, scale, status>>

\* Bounds of the model.
MaxOps == 2
MaxN == 2
MaxNodes == 3

NoErr == "none"

\* ------------------------------------------------------------------------
\* Python values and matrices
\* ------------------------------------------------------------------------
List(v) == [kind |-> "list", v |-> v]
Num(n) == [kind |-> "num", v |-> <<n>>]
PointVal(v) == [kind |-> "point", v |-> v]

Abs(n) == IF n < 0 THEN -n ELSE n
Sign(n) == IF n < 0 THEN -1 ELSE IF n > 0 THEN 1 ELSE 0

RECURSIVE GCD(_, _)
GCD(a, b) == IF b = 0 THEN a ELSE GCD(b, a % b)

\* numpy's a / b on floats: b = 0 gives inf, -inf or nan, and raises nothing.
Frac(n, d) ==
    IF d = 0 THEN <<Sign(n), 0>>
    ELSE LET g == GCD(Abs(n), Abs(d))
         IN <<(Sign(d) * n) \div g, Abs(d) \div g>>

Rows(m) == Len(m)
Cols(m) == Len(m[1])
Transpose(m) == [j \in 1..Cols(m) |-> [i \in 1..Rows(m) |-> m[i][j]]]
Column(m, j) == [i \in 1..Rows(m) |-> m[i][j]]

RECURSIVE Dot(_, _, _, _, _)
Dot(a, b, i, j, k) ==
    IF k = 0 THEN 0 ELSE Dot(a, b, i, j, k - 1) + a[i][k] * b[k][j]

\* numpy's a @ b
MatMul(a, b) ==
    [i \in 1..Rows(a) |-> [j \in 1..Cols(b) |-> Dot(a, b, i, j, Cols(a))]]

identity4 ==
    << <<1, 0, 0, 0>>,
       <<0, 1, 0, 0>>,
       <<0, 0, 1, 0>>,
       <<0, 0, 0, 1>> >>

\* x, y, z = value
Unpack3(value) ==
    CASE value.kind = "num" -> "TypeError"
      [] Len(value.v) # 3 -> "ValueError"
      [] OTHER -> NoErr

\* ------------------------------------------------------------------------
\* Point (packages/point.py): a 3-vector with component-wise += and *=
\* ------------------------------------------------------------------------
ZeroPoint == <<0, 0, 0>>

\* Point(*args).  packages/point.py is not among the sources: whether a call
\* with other than three components raises (point_strict) or builds some
\* Point is left open, and both are explored.
PointNew(args) ==
    IF Len(args) = 3 THEN [err |-> NoErr, p |-> args]
    ELSE IF point_strict THEN [err |-> "TypeError", p |-> ZeroPoint]
    ELSE [err |-> NoErr, p |-> ZeroPoint]

PointIAdd(p, o) == <<p[1] + o[1], p[2] + o[2], p[3] + o[3]>>

PointIMul(p, o) == <<p[1] * o[1], p[2] * o[2], p[3] * o[3]>>

\* ------------------------------------------------------------------------
\* Mesh: property setters
\* ------------------------------------------------------------------------
AllOnes(row) == \A j \in 1..Len(row) : row[j] = 1

vertices_setter(values) ==
    LET first == IF Rows(values) # 4
                 THEN IF Cols(values) = 4
                      THEN [err |-> NoErr, m |-> Transpose(values)]
                      ELSE [err |-> "AssertionError", m |-> values]
                 ELSE [err |-> NoErr, m |-> values]
    IN IF first.err # NoErr THEN first
       ELSE IF ~AllOnes(first.m[4])
            THEN IF Cols(first.m) = 4
                 THEN [err |-> NoErr, m |-> Transpose(first.m)]
                 ELSE [err |-> "AssertionError", m |-> first.m]
            ELSE first

center_setter(value) ==
    CASE value.kind = "point" -> [err |-> NoErr, p |-> value.v]
      [] value.kind = "num" -> PointNew(<<value.v[1], value.v[1], value.v[1]>>)
      [] value.kind = "list" -> PointNew(value.v)
      [] OTHER -> [err |-> "TypeError", p |-> ZeroPoint]

angle_setter(value) ==
    CASE value.kind = "point" -> [err |-> NoErr, p |-> value.v]
      [] value.kind = "num" -> PointNew(<<value.v[1], value.v[1], value.v[1]>>)
      [] value.kind = "list" -> PointNew(value.v)
      [] OTHER -> [err |-> "TypeError", p |-> ZeroPoint]

scale_setter(value) ==
    CASE value.kind = "num" -> PointNew(<<value.v[1], value.v[1], value.v[1]>>)
      [] value.kind \in {"list", "point"} -> PointNew(value.v)
      [] OTHER -> [err |-> "TypeError", p |-> ZeroPoint]

\* ------------------------------------------------------------------------
\* Mesh: the factor matrices.  Each returns [err, mat, self].
\* ------------------------------------------------------------------------
shift_matrix(self, shift) ==
    IF Unpack3(shift) # NoErr
    THEN [err |-> Unpack3(shift), mat |-> identity4, self |-> self]
    ELSE [err |-> NoErr,
          mat |-> << <<1, 0, 0, shift.v[1]>>,
                     <<0, 1, 0, shift.v[2]>>,
                     <<0, 0, 1, shift.v[3]>>,
                     <<0, 0, 0, 1>> >>,
          self |-> [self EXCEPT !.center = PointIAdd(@, shift.v)]]

\* 2*pi, in quarter turns
TwoPi == 4

Cos(k) == CASE k % 4 = 0 -> 1 [] k % 4 = 2 -> -1 [] OTHER -> 0
Sin(k) == CASE k % 4 = 1 -> 1 [] k % 4 = 3 -> -1 [] OTHER -> 0

rotation_matrix(self, rotation) ==
    CASE rotation.kind = "num" ->
           [err |-> "TypeError", mat |-> identity4, self |-> self]
      [] ~(\A k \in 1..Len(rotation.v) :
              -TwoPi <= rotation.v[k] /\ rotation.v[k] < TwoPi) ->
           [err |-> "AssertionError", mat |-> identity4, self |-> self]
      [] Unpack3(rotation) # NoErr ->
           [err |-> Unpack3(rotation), mat |-> identity4, self |-> self]
      [] OTHER ->
           LET alfa == rotation.v[1]
               beta == rotation.v[2]
               gamma == rotation.v[3]
               c_a == Cos(alfa)
               c_b == Cos(beta)
               c_c == Cos(gamma)
               s_a == Sin(alfa)
               s_b == Sin(beta)
               s_c == Sin(gamma)
           IN [err |-> NoErr,
               mat |-> << <<c_b*c_c, s_a*s_b*c_c - c_a*s_c, c_a*s_b*c_c + s_a*s_c, 0>>,
                          <<c_b*s_c, s_a*s_b*s_c + c_a*c_c, c_a*s_b*s_a - s_a*c_c, 0>>,
                          <<-s_b, s_a*c_b, c_a*c_b, 0>>,
                          <<0, 0, 0, 1>> >>,
               self |-> [self EXCEPT !.angle = PointIAdd(@, rotation.v)]]

scale_matrix(self, scale_) ==
    LET diag(x, y, z) ==
            [err |-> NoErr,
             mat |-> << <<x, 0, 0, 0>>,
                        <<0, y, 0, 0>>,
                        <<0, 0, z, 0>>,
                        <<0, 0, 0, 1>> >>,
             self |-> [self EXCEPT !.scale = PointIMul(@, <<x, y, z>>)]]
    IN CASE scale_.kind = "list" ->
              IF \E k \in 1..Len(scale_.v) : scale_.v[k] = 0
              THEN [err |-> "AssertionError", mat |-> identity4, self |-> self]
              ELSE IF Unpack3(scale_) # NoErr
                   THEN [err |-> Unpack3(scale_), mat |-> identity4, self |-> self]
                   ELSE diag(scale_.v[1], scale_.v[2], scale_.v[3])
         [] scale_.kind = "num" ->
              IF scale_.v[1] = 0
              THEN [err |-> "AssertionError", mat |-> identity4, self |-> self]
              ELSE diag(scale_.v[1], scale_.v[1], scale_.v[1])
         [] OTHER -> [err |-> "TypeError", mat |-> identity4, self |-> self]

\* focal @ inv(camera); rows 1 and 2 in units of 5*sqrt(2)/2
FocalInvCamera ==
    << <<1, -1, 0, -1>>,
       <<1, 1, 0, -1>>,
       <<0, 0, 1, 0>> >>

\* The projected vertices, one <<x, y>> per column
to2D(self) ==
    LET mapped_points ==
            MatMul(FocalInvCamera, MatMul(self.transform_matrix, self.vertices))
    IN [j \in 1..Cols(self.vertices) |->
           <<Frac(mapped_points[1][j], mapped_points[3][j]),
             Frac(mapped_points[2][j], mapped_points[3][j])>>]

\* ------------------------------------------------------------------------
\* Mesh: methods
\* ------------------------------------------------------------------------
Mesh_applyTransform_reversed(self, center_, angle_, scale_) ==
    LET r1 == shift_matrix(self, center_)
        r2 == rotation_matrix(r1.self, angle_)
        r3 == scale_matrix(r2.self, scale_)
        moved == [r3.self EXCEPT !.transform_matrix =
                     MatMul(MatMul(MatMul(self.transform_matrix, r1.mat), r2.mat), r3.mat)]
    IN IF r1.err # NoErr THEN [err |-> r1.err, self |-> r1.self]
       ELSE IF r2.err # NoErr THEN [err |-> r2.err, self |-> r2.self]
       ELSE IF r3.err # NoErr THEN [err |-> r3.err, self |-> r3.self]
       ELSE [err |-> NoErr, self |-> [moved EXCEPT !.twoDVertices = to2D(moved)]]

Mesh_applyTransform(self, center_, angle_, scale_) ==
    LET r1 == shift_matrix(self, center_)
        r2 == rotation_matrix(r1.self, angle_)
        r3 == scale_matrix(r2.self, scale_)
        moved == [r3.self EXCEPT !.transform_matrix =
                     MatMul(MatMul(MatMul(r3.mat, r2.mat), r1.mat), self.transform_matrix)]
    IN IF r1.err # NoErr THEN [err |-> r1.err, self |-> r1.self]
       ELSE IF r2.err # NoErr THEN [err |-> r2.err, self |-> r2.self]
       ELSE IF r3.err # NoErr THEN [err |-> r3.err, self |-> r3.self]
       ELSE [err |-> NoErr, self |-> [moved EXCEPT !.twoDVertices = to2D(moved)]]

NoMesh == [exists |-> FALSE]

\* Mesh.__init__: [err, self]; self is NoMesh when the constructor raises
Mesh_init(vertices, edges, center_, angle_, scale_) ==
    LET v == vertices_setter(vertices)
        c == center_setter(center_)
        a == angle_setter(angle_)
        s == scale_setter(scale_)
        fresh == [vertices |-> v.m, edges |-> edges,
                  center |-> c.p, angle |-> a.p, scale |-> s.p,
                  transform_matrix |-> identity4,
                  transform_matrix_backup |-> identity4,
                  twoDVertices |-> <<>>]
        placed == Mesh_applyTransform(fresh, center_, angle_, scale_)
    IN CASE v.err # NoErr -> [err |-> v.err, self |-> NoMesh]
         [] c.err # NoErr -> [err |-> c.err, self |-> NoMesh]
         [] a.err # NoErr -> [err |-> a.err, self |-> NoMesh]
         [] s.err # NoErr -> [err |-> s.err, self |-> NoMesh]
         [] placed.err # NoErr -> [err |-> placed.err, self |-> NoMesh]
         [] OTHER ->
              [err |-> NoErr,
               self |-> [placed.self EXCEPT !.transform_matrix_backup =
                                                placed.self.transform_matrix]]

\* numpy's m[:, i] on a matrix of n columns
ColumnIndex(n, i) ==
    IF 0 <= i /\ i < n THEN i + 1
    ELSE IF -n <= i /\ i < 0 THEN n + i + 1
    ELSE 0

Mesh_getVertex_checked(self, i) ==
    IF 0 <= i /\ i < Cols(self.vertices)
    THEN [err |-> NoErr, ret |-> Column(self.vertices, i + 1)]
    ELSE [err |-> "IndexError", ret |-> <<>>]

Mesh_getVertex(self, i) ==
    LET j == ColumnIndex(Cols(self.vertices), i)
    IN IF j = 0 THEN [err |-> "IndexError", ret |-> <<>>]
       ELSE [err |-> NoErr, ret |-> Column(self.vertices, j)]

Mesh_get2DVertex(self, i) ==
    LET j == ColumnIndex(Len(self.twoDVertices), i)
    IN IF j = 0 THEN [err |-> "IndexError", ret |-> <<>>]
       ELSE [err |-> NoErr, ret |-> self.twoDVertices[j]]

Mesh_reset_identity(self) == [self EXCEPT !.transform_matrix = identity4]

Mesh_reset(self) ==
    [self EXCEPT !.transform_matrix = self.transform_matrix_backup]

\* ------------------------------------------------------------------------
\* The life of one Mesh: constructed once, then used by its caller
\* ------------------------------------------------------------------------
VertexArgs ==
    { << <<0, 0, 0, 1>>, <<1, 0, 0, 1>> >>,
      << <<0, 1, 0>>, <<0, 0, 1>>, <<1, 1, 2>>, <<1, 1, 1>> >>,
      << <<0, 0, 1, 0>>, <<1, 0, 1, 0>>, <<0, 1, 1, 0>>, <<1, 1, 1, 0>> >>,
      << <<1, 2>>, <<3, 4>> >> }
\* <<center, angle, scale>> as a caller passes them
TransformArgs ==
    { <<List(<<1, 2, 0>>), List(<<0, 0, 0>>), List(<<2, 1, 3>>)>>,
      <<List(<<0, 0, 1>>), List(<<0, 0, 0>>), Num(2)>>,
      <<List(<<0, 0, 0>>), List(<<1, 0, 0>>), List(<<1, 1, 1>>)>>,
      <<List(<<1, 2, 0>>), List(<<4, 0, 0>>), List(<<1, 1, 1>>)>>,
      <<List(<<1, 2, 0>>), List(<<1, 0, 0>>), List(<<0, 1, 1>>)>>,
      <<List(<<1, 2, 0>>), List(<<0, 0, 0>>), PointVal(<<1, 1, 1>>)>>,
      <<List(<<0, 0, 0>>), List(<<0, 0, 0>>), List(<<>>)>> }
IndexArgs == {-5, -3, -1, 0, 1, 4}

NoArg == List(<<>>)
Call(op, c, a, s, i, err, ret) ==
    [op |-> op, center |-> c, angle |-> a, scale |-> s, i |-> i,
     err |-> err, ret |-> ret]

FBXIdle ==
    /\ doc = <<>> /\ idx = 0 /\ mesh_list = <<>> /\ counter = 0
    /\ center = <<>> /\ angle = <<>> /\ scale = <<>> /\ status = "idle"
SetterIdle == vin = <<>> /\ vout = [err |-> "idle", m |-> <<>>]
MeshIdle ==
    /\ mesh = NoMesh /\ nops = 0
    /\ last = Call("none", NoArg, NoArg, NoArg, 0, NoErr, <<>>)

constructed == mesh # NoMesh

\* Here Point(*args) decides only which exception ends a constructor given a
\* list of the wrong length, so the Point of the specification is taken.
Init == MeshIdle /\ SetterIdle /\ FBXIdle /\ point_strict = TRUE

construct ==
    /\ last.op = "none"
    /\ \E v \in VertexArgs, t \in TransformArgs :
          LET r == Mesh_init(v, <<0, 1>>, t[1], t[2], t[3])
          IN /\ mesh' = r.self
             /\ last' = Call("Mesh", t[1], t[2], t[3], 0, r.err, <<>>)
    /\ UNCHANGED <<nops, setterVars, readerVars, point_strict>>

applyTransform ==
    /\ constructed
    /\ nops < MaxOps
    /\ \E t \in TransformArgs :
          LET r == Mesh_applyTransform(mesh, t[1], t[2], t[3])
          IN /\ mesh' = r.self
             /\ last' = Call("applyTransform", t[1], t[2], t[3], 0, r.err, <<>>)
    /\ nops' = nops + 1
    /\ UNCHANGED <<setterVars, readerVars, point_strict>>

reset ==
    /\ constructed
    /\ nops < MaxOps
    /\ mesh' = Mesh_reset(mesh)
    /\ last' = Call("reset", NoArg, NoArg, NoArg, 0, NoErr, <<>>)
    /\ nops' = nops + 1
    /\ UNCHANGED <<setterVars, readerVars, point_strict>>

getVertex ==
    /\ constructed
    /\ \E i \in IndexArgs :
          LET r == Mesh_getVertex(mesh, i)
          IN last' = Call("getVertex", NoArg, NoArg, NoArg, i, r.err, r.ret)
    /\ UNCHANGED <<mesh, nops, setterVars, readerVars, point_strict>>

get2DVertex ==
    /\ constructed
    /\ \E i \in IndexArgs :
          LET r == Mesh_get2DVertex(mesh, i)
          IN last' = Call("get2DVertex", NoArg, NoArg, NoArg, i, r.err, r.ret)
    /\ UNCHANGED <<mesh, nops, setterVars, readerVars, point_strict>>

Next == construct \/ applyTransform \/ reset \/ getVertex \/ get2DVertex

Spec == Init /\ [][Next]_vars

\* ------------------------------------------------------------------------
\* Properties of the life of one Mesh (Spec)
\* ------------------------------------------------------------------------
Succeeded(call, op) == call.op = op /\ call.err = NoErr
Failed(call, op) == call.op = op /\ call.err # NoErr

\* The vector [x, y, z] that _scale_matrix multiplies by
ScaleVec(s) == IF s.kind = "num" THEN <<s.v[1], s.v[1], s.v[1]>> ELSE s.v

\* Scale(s) * Rotation(a) * Shift(c) * m
Composed(self, c, a, s, m) ==
    MatMul(scale_matrix(self, s).mat,
           MatMul(rotation_matrix(self, a).mat,
                  MatMul(shift_matrix(self, c).mat, m)))

\* Column j of m @ vertices: where the transform m puts vertex j
Image(m, self, j) == [i \in 1..4 |-> Dot(m, self.vertices, i, j, 4)]

\* s * (v + c), component-wise, on a homogeneous column v
ShiftedThenScaled(v, c, s) ==
    <<s[1] * (v[1] + c[1]), s[2] * (v[2] + c[2]), s[3] * (v[3] + c[3]), 1>>

\* C1: reset() leaves transform_matrix equal to the matrix snapshotted at the
\* end of construction, and neither applyTransform nor reset (nor any other
\* call) changes that snapshot.
C1_ResetRestoresBackup ==
    [][ /\ Succeeded(last', "Mesh") =>
              mesh'.transform_matrix_backup = mesh'.transform_matrix
        /\ constructed =>
              /\ mesh'.transform_matrix_backup = mesh.transform_matrix_backup
              /\ last'.op = "reset" =>
                    mesh'.transform_matrix = mesh.transform_matrix_backup ]_vars

\* reset() has just undone a transform applied after construction
C1_Witness ==
    /\ constructed
    /\ last.op = "reset"
    /\ mesh.transform_matrix = mesh.transform_matrix_backup
    /\ mesh.transform_matrix # identity4
    /\ mesh.twoDVertices # to2D(mesh)

\* C3 (as amended): on a Mesh of N vertices getVertex(i) returns column i of
\* the stored buffer for 0 <= i < N and column N + i for -N <= i < 0 (4
\* components, the last one 1 when the buffer's last row is all ones), and
\* fails with an index error for i >= N and for i < -N; get2DVertex(i) does
\* the same on the projected vertices.
C3_VertexIndexing ==
    constructed =>
      LET n == Cols(mesh.vertices)
          i == last.i
      IN /\ last.op = "getVertex" =>
              /\ (0 <= i /\ i < n) =>
                    /\ last.err = NoErr
                    /\ last.ret = Column(mesh.vertices, i + 1)
                    /\ Len(last.ret) = 4
                    /\ AllOnes(mesh.vertices[4]) => last.ret[4] = 1
              /\ (-n <= i /\ i < 0) =>
                    /\ last.err = NoErr
                    /\ last.ret = Column(mesh.vertices, n + i + 1)
              /\ (i >= n \/ i < -n) => last.err = "IndexError"
         /\ last.op = "get2DVertex" =>
              /\ (0 <= i /\ i < n) =>
                    last.err = NoErr /\ last.ret = mesh.twoDVertices[i + 1]
              /\ (-n <= i /\ i < 0) =>
                    last.err = NoErr /\ last.ret = mesh.twoDVertices[n + i + 1]
              /\ (i >= n \/ i < -n) => last.err = "IndexError"

\* getVertex(-1) has returned the last vertex
C3_Witness ==
    /\ constructed
    /\ Succeeded(last, "getVertex")
    /\ last.i = -1
    /\ last.ret = Column(mesh.vertices, Cols(mesh.vertices))

\* C3 as claimed: every i outside 0..N-1, negative i included, is an index
\* error, and a returned vertex ends in 1.
C3_AsClaimed ==
    (constructed /\ last.op \in {"getVertex", "get2DVertex"}) =>
      IF 0 <= last.i /\ last.i < Cols(mesh.vertices)
      THEN /\ last.err = NoErr
           /\ last.op = "getVertex" =>
                 /\ last.ret = Column(mesh.vertices, last.i + 1)
                 /\ Len(last.ret) = 4
                 /\ last.ret[4] = 1
      ELSE last.err = "IndexError"

\* C5: a failed applyTransform leaves transform_matrix, center, angle, scale
\* and the projected vertices as they were before the call.
C5_FailedTransformAborts ==
    [][ (constructed /\ Failed(last', "applyTransform")) =>
           /\ mesh'.transform_matrix = mesh.transform_matrix
           /\ mesh'.center = mesh.center
           /\ mesh'.angle = mesh.angle
           /\ mesh'.scale = mesh.scale
           /\ mesh'.twoDVertices = mesh.twoDVertices ]_vars

\* C7: a successful applyTransform(c, a, s) sets transform_matrix to
\* Scale(s) * Rotation(a) * Shift(c) * (previous transform_matrix), the
\* constructor's own call starting from the identity; with zero rotation it
\* moves the image p of every vertex to s * (p + c).
C7_LeftMultiplied ==
    [][ /\ Succeeded(last', "Mesh") =>
              LET c == last'.center
                  a == last'.angle
                  s == last'.scale
              IN /\ mesh'.transform_matrix = Composed(mesh', c, a, s, identity4)
                 /\ a.v = <<0, 0, 0>> =>
                       \A j \in 1..Cols(mesh'.vertices) :
                          Column(mesh'.vertices, j)[4] = 1 =>
                             Image(mesh'.transform_matrix, mesh', j) =
                                ShiftedThenScaled(Column(mesh'.vertices, j),
                                                  c.v, ScaleVec(s))
        /\ (constructed /\ Succeeded(last', "applyTransform")) =>
              LET c == last'.center
                  a == last'.angle
                  s == last'.scale
              IN /\ mesh'.transform_matrix =
                       Composed(mesh, c, a, s, mesh.transform_matrix)
                 /\ a.v = <<0, 0, 0>> =>
                       \A j \in 1..Cols(mesh.vertices) :
                          Image(mesh.transform_matrix, mesh, j)[4] = 1 =>
                             Image(mesh'.transform_matrix, mesh', j) =
                                ShiftedThenScaled(
                                   Image(mesh.transform_matrix, mesh, j),
                                   c.v, ScaleVec(s)) ]_vars

\* A second transform with zero rotation, a shift and a scale has been
\* applied on top of a first one
C7_Witness ==
    /\ constructed
    /\ nops = 2
    /\ Succeeded(last, "applyTransform")
    /\ last.angle.v = <<0, 0, 0>>
    /\ last.center.v # <<0, 0, 0>>
    /\ ScaleVec(last.scale) # <<1, 1, 1>>
    /\ mesh.vertices[4] = <<1, 1>>
    /\ mesh.transform_matrix # mesh.transform_matrix_backup

\* C8: the stored projected vertices are the projection of the current
\* transform_matrix applied to the vertices.
C8_ProjectionCurrent ==
    constructed => mesh.twoDVertices = to2D(mesh)

\* C9: center, angle and scale are the placement given to the constructor,
\* counted once, plus (times, for scale) the arguments of every successful
\* applyTransform since; reset() changes none of them.
C9_TrackedPlacement ==
    [][ /\ (Succeeded(last', "Mesh") /\ last'.scale.kind = "list") =>
              /\ mesh'.center = last'.center.v
              /\ mesh'.angle = last'.angle.v
              /\ mesh'.scale = last'.scale.v
        /\ (constructed /\ Succeeded(last', "applyTransform")) =>
              /\ mesh'.center = PointIAdd(mesh.center, last'.center.v)
              /\ mesh'.angle = PointIAdd(mesh.angle, last'.angle.v)
              /\ mesh'.scale = PointIMul(mesh.scale, ScaleVec(last'.scale))
        /\ (constructed /\ last'.op = "reset") =>
              /\ mesh'.center = mesh.center
              /\ mesh'.angle = mesh.angle
              /\ mesh'.scale = mesh.scale ]_vars

\* ------------------------------------------------------------------------
\* The vertices setter on its own (SpecVertices)
\* ------------------------------------------------------------------------
Entries == {0, 1}
Shapes ==
    {<<4, n>> : n \in 1..MaxN} \cup {<<n, 4>> : n \in 1..MaxN}
       \cup {<<4, 4>>, <<2, 2>>, <<3, 3>>}
VertexInputs ==
    UNION { [1..sh[1] -> [1..sh[2] -> Entries]] : sh \in Shapes }

InitVertices ==
    /\ vin \in VertexInputs
    /\ vout = [err |-> "idle", m |-> <<>>]
    /\ MeshIdle /\ FBXIdle
    /\ point_strict = TRUE

setVertices ==
    /\ vout.err = "idle"
    /\ vin # <<>>
    /\ vout' = vertices_setter(vin)
    /\ UNCHANGED <<vin, meshVars, readerVars, point_strict>>

NextVertices == setVertices

SpecVertices == InitVertices /\ [][NextVertices]_vars

\* C4: a buffer the vertices setter stores has exactly 4 rows and a last row
\* of ones; what cannot be brought to that form is rejected, not stored.
C4_StoredHomogeneous ==
    vout.err = NoErr => (Rows(vout.m) = 4 /\ AllOnes(vout.m[4]))

\* ------------------------------------------------------------------------
\* readFBX: the loop over the object list of the document (SpecFBX)
\* ------------------------------------------------------------------------
Geometry(v, e) ==
    [name |-> "Geometry", vertices |-> v, edges |-> e, attrs |-> <<>>]
Model(attrs) ==
    [name |-> "Model", vertices |-> <<>>, edges |-> <<>>, attrs |-> attrs]
Other(name) ==
    [name |-> name, vertices |-> <<>>, edges |-> <<>>, attrs |-> <<>>]
\* v2['properties'][0]['value'] and v2['properties'][4..6]['value']
Attr(name, vals) == [name |-> name, vals |-> vals]

\* s[0] of a Python string
FirstChar(s) ==
    CASE s \in {"Lcl Translation", "Lcl Rotation", "Lcl Scaling"} -> "L"
      [] s = "Visibility" -> "V"
      [] OTHER -> "?"

\* math.radians, from degrees (multiples of 90) to quarter turns
Radians(deg) == deg \div 90

\* value / 100, on the multiples of 100
Percent(value) == value \div 100

ScalingTest(attr) == FirstChar(attr.name) = "Lcl Scaling"

\* The loop over a Model's attributes: <<center, angle, scale>> after it
RECURSIVE ModelPlacement(_, _, _, _, _)
ModelPlacement(attrs, k, c, a, s) ==
    IF k > Len(attrs) THEN <<c, a, s>>
    ELSE LET v2 == attrs[k]
         IN CASE v2.name = "Lcl Translation" ->
                   ModelPlacement(attrs, k + 1, v2.vals, a, s)
              [] v2.name = "Lcl Rotation" ->
                   ModelPlacement(attrs, k + 1, c,
                                  [n \in 1..3 |-> Radians(v2.vals[n])], s)
              [] ScalingTest(v2) ->
                   ModelPlacement(attrs, k + 1, c, a,
                                  s \o [n \in 1..3 |-> Percent(v2.vals[n])])
              [] OTHER -> ModelPlacement(attrs, k + 1, c, a, s)

FullModel ==
    Model(<<Attr("Lcl Translation", <<1, 0, 0>>),
            Attr("Lcl Rotation", <<0, 0, 0>>),
            Attr("Lcl Scaling", <<100, 100, 100>>)>>)
BareModel ==
    Model(<<Attr("Lcl Translation", <<0, 2, 0>>),
            Attr("Visibility", <<1, 0, 0>>)>>)
TurnedModel ==
    Model(<<Attr("Lcl Scaling", <<200, 100, 100>>),
            Attr("Lcl Rotation", <<90, 0, 0>>)>>)
Segment == Geometry(<< <<0, 0, 0, 1>>, <<1, 0, 0, 1>> >>, <<0, 1>>)
Triangle ==
    Geometry(<< <<0, 1, 0>>, <<0, 0, 1>>, <<1, 1, 2>>, <<1, 1, 1>> >>,
             <<0, 1, 2>>)

NodeArgs ==
    {Segment, Triangle, FullModel, BareModel, TurnedModel, Other("Material")}
Documents == UNION { [1..n -> NodeArgs] : n \in 0..MaxNodes }

Raised == status \notin {"idle", "running", "returned"}

InitFBX ==
    /\ doc \in Documents
    /\ idx = 0
    /\ mesh_list = <<>>
    /\ counter = 0
    /\ center = <<0, 0, 0>>
    /\ angle = <<0, 0, 0>>
    /\ scale = <<>>
    /\ status = "running"
    /\ MeshIdle /\ SetterIdle
    /\ point_strict \in BOOLEAN

\* The next node of the loop
AtNode(name) ==
    /\ status = "running"
    /\ idx < Len(doc)
    /\ doc[idx + 1].name = name

readGeometry ==
    /\ AtNode("Geometry")
    /\ LET v == doc[idx + 1]
           new_mesh == Mesh_init(v.vertices, v.edges,
                                 List(center), List(angle), List(scale))
       IN IF new_mesh.err # NoErr
          THEN status' = new_mesh.err /\ UNCHANGED <<idx, mesh_list>>
          ELSE /\ mesh_list' = Append(mesh_list, new_mesh.self)
               /\ idx' = idx + 1
               /\ UNCHANGED status
    /\ UNCHANGED <<doc, counter, center, angle, scale, meshVars, setterVars,
                   point_strict>>

readModel ==
    /\ AtNode("Model")
    /\ LET placement ==
               ModelPlacement(doc[idx + 1].attrs, 1, center, angle, scale)
       IN IF counter >= Len(mesh_list)
          THEN /\ status' = "IndexError"
               /\ center' = placement[1]
               /\ angle' = placement[2]
               /\ scale' = placement[3]
               /\ UNCHANGED <<idx, mesh_list, counter>>
          ELSE LET old == mesh_list[counter + 1]
                   new_mesh == Mesh_init(old.vertices, old.edges,
                                         List(placement[1]),
                                         List(placement[2]),
                                         List(placement[3]))
               IN IF new_mesh.err # NoErr
                  THEN /\ status' = new_mesh.err
                       /\ center' = placement[1]
                       /\ angle' = placement[2]
                       /\ scale' = placement[3]
                       /\ UNCHANGED <<idx, mesh_list, counter>>
                  ELSE /\ mesh_list' =
                             [mesh_list EXCEPT ![counter + 1] = new_mesh.self]
                       /\ center' = <<0, 0, 0>>
                       /\ angle' = <<0, 0, 0>>
                       /\ scale' = <<>>
                       /\ counter' = counter + 1
                       /\ idx' = idx + 1
                       /\ UNCHANGED status
    /\ UNCHANGED <<doc, meshVars, setterVars, point_strict>>

readOther ==
    /\ status = "running"
    /\ idx < Len(doc)
    /\ doc[idx + 1].name \notin {"Geometry", "Model"}
    /\ idx' = idx + 1
    /\ UNCHANGED <<doc, mesh_list, counter, center, angle, scale, status,
                   meshVars, setterVars, point_strict>>

readReturn ==
    /\ status = "running"
    /\ idx = Len(doc)
    /\ status' = "returned"
    /\ UNCHANGED <<doc, idx, mesh_list, counter, center, angle, scale,
                   meshVars, setterVars, point_strict>>

NextFBX == readGeometry \/ readModel \/ readOther \/ readReturn

SpecFBX == InitFBX /\ [][NextFBX]_vars

\* The nodes named Geometry or Model, in document order
RECURSIVE Objects(_)
Objects(d) ==
    IF d = <<>> THEN <<>>
    ELSE IF Head(d).name \in {"Geometry", "Model"}
         THEN <<Head(d)>> \o Objects(Tail(d))
         ELSE Objects(Tail(d))

\* Every Geometry is followed by exactly one Model before the next Geometry
WellPaired(d) ==
    LET o == Objects(d)
    IN /\ Len(o) % 2 = 0
       /\ \A k \in 1..Len(o) :
             o[k].name = (IF k % 2 = 1 THEN "Geometry" ELSE "Model")

\* C2: readFBX on one Geometry (vertices [[0,0,0,1],[1,0,0,1]], edges [0,1])
\* followed by one Model with Lcl Translation (1,0,0), Lcl Rotation (0,0,0)
\* and Lcl Scaling (100,100,100) does not raise and returns exactly one Mesh,
\* whose center is (1,0,0).
C2_EndToEnd ==
    doc = <<Segment, FullModel>> =>
       /\ ~Raised
       /\ status = "returned" =>
             (Len(mesh_list) = 1 /\ mesh_list[1].center = <<1, 0, 0>>)

\* C6: a Model node that follows a Geometry node and has no attribute
\* matching the "Lcl Scaling" test leaves scale at its default and does not
\* raise: the Model step completes and the mesh list is returned.
C6_UnscaledModelCompletes ==
    ( /\ Len(doc) = 2
      /\ doc[1].name = "Geometry"
      /\ doc[2].name = "Model"
      /\ \A k \in 1..Len(doc[2].attrs) : ~ScalingTest(doc[2].attrs[k]) ) =>
       /\ ~Raised
       /\ scale = <<>>
       /\ status = "returned" => Len(mesh_list) = 1

\* C10: when every Geometry is followed by exactly one Model, the counter is
\* the index of the last mesh each time a Model is processed, nothing is
\* raised, and the list returned holds one Mesh per Geometry, in document
\* order, built from that Geometry's vertices and edges.
C10_CounterPairing ==
    WellPaired(doc) =>
       /\ ~Raised
       /\ AtNode("Model") => counter = Len(mesh_list) - 1
       /\ status = "returned" =>
             /\ Len(mesh_list) * 2 = Len(Objects(doc))
             /\ \A k \in 1..Len(mesh_list) :
                   /\ mesh_list[k].edges = Objects(doc)[2 * k - 1].edges
                   /\ mesh_list[k].vertices =
                         vertices_setter(Objects(doc)[2 * k - 1].vertices).m

====
